---- MODULE Spec2Model ----
(***************************************************************************)
(* The peer-mesh connection manager of PeerGram:                           *)
(* WebRTCManager in src/client/src/lib/webrtc.ts.                          *)
(*                                                                         *)
(* The manager is event driven and single threaded: every handler          *)
(* (socket event, PeerJS event, timer callback, public method) runs to     *)
(* completion, so each one is one action.  Handlers are written as         *)
(* operators over a record m holding the manager's fields, composed in     *)
(* the order of the statements of the source; an action applies one        *)
(* handler to the current state and commits the result.                    *)
(*                                                                         *)
(* The chat input that sends over the manager (ChatInput.handleSubmit, the *)
(* server's POST /api/messages and MemStorage.createMessage) is modelled   *)
(* in the same way, one action per stretch between two awaits.             *)
(*                                                                         *)
(* PeerJS is a library, not part of the repository.  What the handlers     *)
(* rely on is modelled where the source calls it: DataConnection.close()   *)
(* emits 'close' synchronously, and only when the connection was open;     *)
(* Peer.destroy() closes every connection of the peer; Peer.connect()      *)
(* returns nothing when the peer is disconnected from its server.          *)
(***************************************************************************)
EXTENDS Integers, Sequences, FiniteSets, Bags, TLC

(* ------------------------------ bounds -------------------------------- *)

\* remote peers 1..NPeers
NPeers == 1
\* DataConnection objects alive at one time (dialed or accepted)
MaxConns == 2
\* transports opened to one peer in the run that the retry budget is counted on
MaxDials == 5
\* setTimeout callbacks pending at one time (establish-timeouts not counted)
MaxTimers == 1
\* calls of cleanup()
MaxCleanups == 1
\* bytes of frames received (dataReceived, before the division by 1024)
MaxBytes == 41
\* bytes of frames received on the data path (SpecData)
MaxBytesData == 164
\* calls of cleanup() in the life of the manager (SpecLife)
MaxCleanupsLife == 2
\* bytes of frames sent, and received in SpecLife (before the division by 1024)
MaxSent == 105
\* the largest RTT (ms) the classification is checked for
MaxRtt == 400
\* chat messages submitted in ChatInput (SpecChat)
MaxMsgs == 2

(* --------------------------- program constants ------------------------ *)

MAX_RETRIES == 3

LocalId == 0
NoId    == -1
NoUser  == -1
NoRec   == [peerId |-> NoId, userId |-> NoUser, strength |-> "none"]

Peers   == 1 .. NPeers
\* the local user passed to init(userId)
LocalUser == 7
\* the user ids init may be called with: an ordinary one and 0
LocalUsers == {0, LocalUser}
\* the userId the signaling server reports for remote peer p
RemoteUser(p) == 10 + p
\* the userId argument of a connectToPeer call made through the public interface
CallUsers(p) == {RemoteUser(p)}
\* RTTs (ms) a PONG may yield: below, at and above both thresholds
RttSamples == {50, 100, 250, 300, 400}
\* RTTs next to the thresholds as well
RttEdges == RttSamples \cup {0, 99, 299}
\* a frame as the handlers read it: its type, the RTT its timestamp yields when
\* it is a PONG, the userId it carries when it is a HANDSHAKE, the messageId
\* and the content it carries when it is a chat MESSAGE
NoFrame == [type |-> "", rtt |-> 0, userId |-> NoUser, messageId |-> 0, content |-> 0]

ZeroStats == [totalPeers |-> 0, strongConnections |-> 0, mediumConnections |-> 0,
              weakConnections |-> 0, dataShared |-> 0, dataReceived |-> 0]

VARIABLES
  peer,          \* this.peer: "null", "new" (created, not yet open), "open",
                 \* "dead" (destroyed by PeerJS on an error before it opened)
  promise,       \* the Promise the last init() returned: "none", "pending",
                 \* "resolved", "rejected"
  peerId,        \* this.peerId: NoId or LocalId
  userId,        \* this.userId: NoUser or a user id
  socket,        \* this.socket is non-null
  connections,   \* this.connections: the Map, as its set of entries
  networkStats,  \* this.networkStats
  conns,         \* the DataConnection objects alive, with their closure state
  chat,          \* the chat path: the server's message store and the calls of
                 \* ChatInput.handleSubmit under way
  timers,        \* pending setTimeout callbacks that call connectToPeer (a bag)
  hist,          \* history: transports opened per peer, PONGs of the RTT scenario, cleanup() calls,
                 \* whether the last notification about a peer was a connect
  notes,         \* what the last handler emitted: notifications, frames, socket messages
  last           \* the last handler run, with the facts of its pre-state

vars == <<peer, promise, peerId, userId, socket, connections, networkStats, conns,
          chat, timers, hist, notes, last>>

(* ------------------------- the state as a record ---------------------- *)

\* The manager's fields at the start of a handler; nothing emitted yet.
Cur == [peer |-> peer, promise |-> promise, peerId |-> peerId, userId |-> userId, socket |-> socket,
        connections |-> connections, networkStats |-> networkStats,
        conns |-> conns, chat |-> chat, timers |-> timers, hist |-> hist, notes |-> <<>>,
        over |-> FALSE]

\* The model's bounds, checked on the state a handler leaves.
Within(m) ==
  /\ ~m.over
  /\ \A p \in Peers : m.hist.dials[p] <= MaxDials
  /\ BagCardinality(m.timers) <= MaxTimers

\* A closed DataConnection that no pending callback refers to is garbage.  One
\* that only its ping interval refers to is kept for the tick that clears the
\* interval, which reads nothing of it but that it is closed.
FreeConn ==
  [peer |-> NoId, dir |-> "", st |-> "free", userId |-> NoUser, retryCount |-> 0,
   timeout |-> "off", rec |-> NoRec, probe |-> FALSE]

Collect(cs) ==
  [c \in DOMAIN cs |->
     IF cs[c].st = "closed" /\ cs[c].timeout # "pending"
     THEN IF cs[c].probe
          THEN [FreeConn EXCEPT !.peer = cs[c].peer, !.st = "closed", !.probe = TRUE]
          ELSE FreeConn
     ELSE cs[c]]

Commit(m, l) ==
  /\ Within(m)
  /\ peer' = m.peer
  /\ promise' = m.promise
  /\ peerId' = m.peerId
  /\ userId' = m.userId
  /\ socket' = m.socket
  /\ connections' = m.connections
  /\ networkStats' = m.networkStats
  /\ conns' = Collect(m.conns)
  /\ chat' = m.chat
  /\ timers' = m.timers
  /\ hist' = m.hist
  /\ notes' = m.notes
  /\ last' = l

(* ------------------------- the Map of connections --------------------- *)

\* Map.has(key)
has(m, p) == \E e \in m.connections : e.peerId = p

\* Map.get(key), for a key the Map has
get(m, p) == CHOOSE e \in m.connections : e.peerId = p

\* Map.set that keeps the entry the key had
MapSetKeepsOld(es, p, c) == es \cup {[peerId |-> p, conn |-> c]}

\* Map.set(key, value): the entry of the key is replaced
MapSet(es, p, c) == {e \in es : e.peerId # p} \cup {[peerId |-> p, conn |-> c]}

\* Map.delete(key)
MapDelete(es, p) == {e \in es : e.peerId # p}

\* The PeerConnection object an entry refers to: the one made when its
\* DataConnection opened.  The Map and the closures share the object.
RecOf(m, e) == m.conns[e.conn].rec

(* ------------------------------ outputs ------------------------------- *)

Tier(m, s) == Cardinality({e \in m.connections : RecOf(m, e).strength = s})

\* What getNetworkStats() must show for the registry as it is.
StatsMatch(m) ==
  /\ m.networkStats.totalPeers = Cardinality(m.connections)
  /\ m.networkStats.strongConnections = Tier(m, "strong")
  /\ m.networkStats.mediumConnections = Tier(m, "medium")
  /\ m.networkStats.weakConnections = Tier(m, "weak")
  /\ m.networkStats.strongConnections + m.networkStats.mediumConnections
       + m.networkStats.weakConnections = m.networkStats.totalPeers

Emit(m, n) == [m EXCEPT !.notes = Append(@, n)]

\* One thing a handler lets out: a subscriber called (connect, disconnect,
\* message), a frame written (send), a socket message (emit), a value returned.
Note(kind, p, c, payload) ==
  [kind |-> kind, peerId |-> p, conn |-> c, payload |-> payload,
   userId |-> NoUser, data |-> NoFrame, tier |-> "", statsOk |-> TRUE]

\* connectionHandlers.forEach / disconnectionHandlers.forEach: the subscriber
\* reads getConnections() and getNetworkStats() when it is called.
Notify(m, kind, p) ==
  LET m1 == IF p \in Peers THEN [m EXCEPT !.hist.told[p] = (kind = "connect")] ELSE m
  IN  Emit(m1, [Note(kind, p, 0, "") EXCEPT !.statsOk = StatsMatch(m)])

\* conn.send(frame)
Send(m, c, type) == Emit(m, Note("send", m.conns[c].peer, c, type))

\* conn.send(data) of a frame handed in by the application
SendFrame(m, c, f) ==
  Emit(m, [Note("send", m.conns[c].peer, c, f.type) EXCEPT !.data = f])

\* what a public method returns to its caller
Return(m, v) == Emit(m, Note("return", NoId, 0, v))

\* socket.emit('register-peer', { peerId, userId })
EmitRegister(m, id, u) ==
  Emit(m, [Note("emit", id, 0, "register-peer") EXCEPT !.userId = u])

\* socket.emit('connection-strength', { peerId, targetPeerId, strength })
EmitStrength(m, p, s) ==
  Emit(m, [Note("emit", p, 0, "connection-strength") EXCEPT !.tier = s])

\* socket.emit(event, ...)
SocketEmit(m, event) == Emit(m, Note("emit", NoId, 0, event))

(* ------------------------------- timers ------------------------------- *)

\* setTimeout(callback, delay); the timer remembers how many cleanup() calls
\* had been made when it was set (epoch)
setTimeout(m, t) ==
  [m EXCEPT !.timers = @ (+) SetToBag({[t EXCEPT !.epoch = m.hist.cleanups]})]

\* clearTimeout(connectionTimeout) of the dial that made connection c
clearTimeout(m, c) ==
  IF m.conns[c].timeout = "pending"
  THEN [m EXCEPT !.conns[c].timeout = "off"]
  ELSE m

RetryTimer(kind, p, u, n) ==
  [kind |-> kind, peerId |-> p, userId |-> u, retryCount |-> n, epoch |-> 0]

(* ------------------------------ handlers ------------------------------ *)

RECURSIVE handlePeerDisconnection(_, _), ConnClose(_, _), OnClose(_, _)

\* A DataConnection as the manager holds it: the PeerJS object (peer, st), the
\* variables its handlers close over (userId, retryCount, timeout), the
\* PeerConnection object made for it on open (rec) with its ping interval
\* (probe).
NewConn(p, dir, u, n) ==
  [peer |-> p, dir |-> dir, st |-> "connecting", userId |-> u, retryCount |-> n,
   timeout |-> IF dir = "out" THEN "pending" ELSE "off",
   rec |-> NoRec, probe |-> FALSE]

\* The new object takes the first free slot.
Alloc(m, conn) ==
  IF \A c \in DOMAIN m.conns : m.conns[c].st # "free"
  THEN [m EXCEPT !.over = TRUE]
  ELSE LET c == CHOOSE d \in DOMAIN m.conns :
                  /\ m.conns[d].st = "free"
                  /\ \A x \in DOMAIN m.conns : m.conns[x].st = "free" => d <= x
       IN  [m EXCEPT !.conns[c] = conn]

\* History kept for the retry budget: hist.dials[p] counts the transports opened
\* to p while p was dialed on one request only (retryCount 0 once, then the
\* retries) and nothing else happened with p; hist.single[p] is FALSE from then on.
Void(m, p) ==
  IF p \in Peers
  THEN [m EXCEPT !.hist.dials[p] = 0, !.hist.single[p] = FALSE]
  ELSE m

Counted(m, p, n) ==
  IF p \notin Peers \/ ~m.hist.single[p] THEN m
  ELSE IF (n = 0) = (m.hist.dials[p] = 0)
  THEN [m EXCEPT !.hist.dials[p] = @ + 1]
  ELSE Void(m, p)

\* History kept for the RTT scenario: hist.run follows the PONGs that arrive on
\* the connection of a newly opened peer that has no other connection, as long
\* as their RTTs are those of Scenario in its order, and the tier changes
\* reported for them.
Scenario == <<50, 50, 250, 400>>
NoRun == [conn |-> 0, rtts |-> <<>>, events |-> <<>>]

RunVoid(m) == [m EXCEPT !.hist.run = NoRun]

RunStart(m, c) ==
  IF \A d \in DOMAIN m.conns \ {c} : m.conns[d].st \in {"free", "closed"}
  THEN [m EXCEPT !.hist.run = [NoRun EXCEPT !.conn = c]]
  ELSE RunVoid(m)

RunPong(m, c, rtt) ==
  IF m.hist.run.conn # c THEN m
  ELSE IF Len(m.hist.run.rtts) < Len(Scenario)
          /\ rtt = Scenario[Len(m.hist.run.rtts) + 1]
  THEN [m EXCEPT !.hist.run.rtts = Append(@, rtt)]
  ELSE RunVoid(m)

RunEvent(m, c, old, new) ==
  IF m.hist.run.conn # c THEN m
  ELSE [m EXCEPT !.hist.run.events = Append(@, <<old, new>>)]

\* JavaScript truthiness of a userId: null, undefined and 0 are falsy.
Truthy(u) == u # NoUser /\ u # 0

updateNetworkStats(m) ==
  [m EXCEPT !.networkStats =
     [@ EXCEPT !.totalPeers = Cardinality(m.connections),
               !.strongConnections = Tier(m, "strong"),
               !.mediumConnections = Tier(m, "medium"),
               !.weakConnections = Tier(m, "weak")]]

\* setInterval of the ping loop; the 'data' listener for PING/PONG stays on the
\* connection from here on (rec # NoRec).
measureConnectionQuality(m, c) == [m EXCEPT !.conns[c].probe = TRUE]

\* the guard without its connections.has(peerId) and self tests
DialGuardPeerOnly(m, p) == m.peer # "null"

\* if (!this.peer || this.connections.has(peerId) || peerId === this.peerId) return;
DialGuard(m, p) == m.peer # "null" /\ ~has(m, p) /\ p # m.peerId

\* connectToPeer(peerId, userId, retryCount).  ok: peer.connect returned a
\* connection.  When it returns nothing (the peer is disconnected from its
\* server) conn.on throws and the catch schedules the retry; the establish
\* timeout set before the throw changes nothing when it fires (conn.close()
\* throws in the callback, or the guard is false), so it is left out.
connectToPeer(m, p, u, n, ok) ==
  IF ~DialGuard(m, p) THEN m
  ELSE IF ok THEN Counted(Alloc(m, NewConn(p, "out", u, n)), p, n)
  ELSE LET m1 == Void(m, p)
       IN  IF n < MAX_RETRIES
           THEN setTimeout(m1, RetryTimer("retry", p, u, n + 1))
           ELSE m1

\* handleIncomingConnection(conn): only registers the listeners
handleIncomingConnection(m, p) ==
  Void(Alloc(m, NewConn(p, "in", NoUser, 0)), p)

\* the handler with 'strong' as the tier a record starts in
OutOnOpenStrong(m, c) ==
  LET p  == m.conns[c].peer
      m1 == clearTimeout(Void(m, p), c)
      m2 == [m1 EXCEPT !.conns[c].rec =
               [peerId |-> p, userId |-> m.conns[c].userId, strength |-> "strong"]]
      m3 == [m2 EXCEPT !.connections = MapSet(@, p, c)]
      m4 == updateNetworkStats(m3)
      m5 == measureConnectionQuality(RunStart(m4, c), c)
      m6 == Notify(m5, "connect", p)
  IN  Emit(m6, [Note("send", p, c, "HANDSHAKE") EXCEPT !.userId = m.userId])

\* conn.on('open') of connectToPeer
OutOnOpen(m, c) ==
  LET p  == m.conns[c].peer
      m1 == clearTimeout(Void(m, p), c)
      m2 == [m1 EXCEPT !.conns[c].rec =
               [peerId |-> p, userId |-> m.conns[c].userId, strength |-> "medium"]]
      m3 == [m2 EXCEPT !.connections = MapSet(@, p, c)]
      m4 == updateNetworkStats(m3)
      m5 == measureConnectionQuality(RunStart(m4, c), c)
      m6 == Notify(m5, "connect", p)
  IN  Emit(m6, [Note("send", p, c, "HANDSHAKE") EXCEPT !.userId = m.userId])

\* conn.on('open') of handleIncomingConnection
InOnOpen(m, c) ==
  LET p  == m.conns[c].peer
      m2 == [Void(m, p) EXCEPT !.conns[c].rec =
               [peerId |-> p, userId |-> NoUser, strength |-> "medium"]]
      m3 == [m2 EXCEPT !.connections = MapSet(@, p, c)]
      m4 == updateNetworkStats(m3)
      m5 == measureConnectionQuality(RunStart(m4, c), c)
  IN  Notify(m5, "connect", p)

\* handlePeerDisconnection without the recomputation of the stats
handlePeerDisconnectionStale(m, p) ==
  IF ~has(m, p) THEN m
  ELSE LET e  == get(m, p)
           m1 == IF m.conns[e.conn].st = "open"
                 THEN ConnClose(m, e.conn)
                 ELSE m
           m2 == [m1 EXCEPT !.connections = MapDelete(@, p)]
       IN  Notify(m2, "disconnect", p)

handlePeerDisconnection(m, p) ==
  IF ~has(m, p) THEN m
  ELSE LET e  == get(m, p)
           m1 == IF m.conns[e.conn].st = "open"
                 THEN ConnClose(m, e.conn)
                 ELSE m
           m2 == [m1 EXCEPT !.connections = MapDelete(@, p)]
           m3 == updateNetworkStats(m2)
       IN  Notify(m3, "disconnect", p)

\* conn.on('close') of connectToPeer
OutOnClose(m, c) ==
  LET p  == m.conns[c].peer
      m1 == clearTimeout(m, c)
      m2 == handlePeerDisconnection(m1, p)
  IN  IF has(m2, p)
      THEN setTimeout(m2, RetryTimer("reconnect", p, m.conns[c].userId, 0))
      ELSE m2

\* conn.on('close') of handleIncomingConnection
InOnClose(m, c) == handlePeerDisconnection(m, m.conns[c].peer)

OnClose(m, c) ==
  IF m.conns[c].dir = "out" THEN OutOnClose(m, c) ELSE InOnClose(m, c)

\* PeerJS DataConnection.close(): 'close' is emitted, synchronously, only if the
\* connection was open.
ConnClose(m, c) ==
  IF m.conns[c].st \in {"closed", "free"} THEN m
  ELSE LET m0 == IF m.hist.run.conn = c THEN RunVoid(m) ELSE m
           m1 == [m0 EXCEPT !.conns[c].st = "closed"]
       IN  IF m.conns[c].st = "open" THEN OnClose(m1, c) ELSE m1

\* conn.on('error') of connectToPeer
OutOnError(m, c) ==
  LET p  == m.conns[c].peer
      n  == m.conns[c].retryCount
      m1 == clearTimeout(m, c)
      m2 == handlePeerDisconnection(m1, p)
  IN  IF n < MAX_RETRIES
      THEN setTimeout(m2, RetryTimer("retry", p, m.conns[c].userId, n + 1))
      ELSE m2

\* conn.on('error') of handleIncomingConnection
InOnError(m, c) == handlePeerDisconnection(m, m.conns[c].peer)

OnError(m, c) ==
  IF m.conns[c].dir = "out" THEN OutOnError(m, c) ELSE InOnError(m, c)

\* the callback with the retry left out
OnTimeoutNoRetry(m, c) ==
  LET m0 == [m EXCEPT !.conns[c].timeout = "off"]
  IN  IF has(m0, m.conns[c].peer) THEN m0 ELSE ConnClose(m0, c)

\* the connectionTimeout callback of the dial that made connection c
OnTimeout(m, c) ==
  LET p  == m.conns[c].peer
      n  == m.conns[c].retryCount
      m0 == [m EXCEPT !.conns[c].timeout = "off"]
  IN  IF has(m0, p) THEN m0
      ELSE LET m1 == ConnClose(m0, c)
           IN  IF n < MAX_RETRIES
               THEN setTimeout(m1, RetryTimer("retry", p, m.conns[c].userId, n + 1))
               ELSE m1

(* ------------------------------- frames ------------------------------- *)

\* The frames the remote end sends here.
PongFrames == {[NoFrame EXCEPT !.type = "PONG", !.rtt = r] : r \in RttSamples}
EdgeFrames == {[NoFrame EXCEPT !.type = "PONG", !.rtt = r] : r \in RttEdges}
PingFrames == {[NoFrame EXCEPT !.type = "PING"]}
HandshakeFrames ==
  {[NoFrame EXCEPT !.type = "HANDSHAKE", !.userId = RemoteUser(p)] : p \in Peers}
\* application frames, one of a type no component knows
AppFrames == {[NoFrame EXCEPT !.type = t] : t \in {"MESSAGE", "UNKNOWN"}}
Frames == EdgeFrames \cup PingFrames \cup HandshakeFrames \cup AppFrames

\* JSON.stringify(data).length of a frame, e.g.
\* {"type":"PING","timestamp":1762041600000} is 41 characters.
FrameSize(f) == IF f.type \in {"PING", "PONG"} THEN 41 ELSE 105

\* the thresholds taken inclusively
ClassifyInclusive(rtt) ==
  IF rtt <= 100 THEN "strong" ELSE IF rtt <= 300 THEN "medium" ELSE "weak"

\* rtt < 100 strong, rtt < 300 medium, else weak
Classify(rtt) ==
  IF rtt < 100 THEN "strong" ELSE IF rtt < 300 THEN "medium" ELSE "weak"

\* updateConnectionStrength(peerConn, rtt); peerConn is the object made when
\* connection c opened, in the registry or not.
updateConnectionStrength(m, c, rtt) ==
  LET newStrength == Classify(rtt)
  IN  IF m.conns[c].rec.strength = newStrength THEN m
      ELSE LET m1 == [m EXCEPT !.conns[c].rec.strength = newStrength]
               m2 == updateNetworkStats(m1)
           IN  IF m2.socket /\ m2.peerId # NoId
               THEN RunEvent(EmitStrength(m2, m.conns[c].rec.peerId, newStrength),
                             c, m.conns[c].rec.strength, newStrength)
               ELSE m2

\* handleIncomingData that forwards the frames of the known types only
handleIncomingDataKnownTypes(m, p, f) ==
  LET m1 == [m EXCEPT !.networkStats.dataReceived = @ + FrameSize(f)]
      m2 == IF m1.socket /\ Truthy(m1.userId)
            THEN SocketEmit(m1, "data-transfer")
            ELSE m1
  IN  IF has(m2, p) /\ f.type # "UNKNOWN"
      THEN Emit(m2, [Note("message", p, get(m2, p).conn, f.type) EXCEPT
                       !.userId = RecOf(m2, get(m2, p)).userId, !.data = f])
      ELSE m2

\* handleIncomingData(peerId, data); dataReceived is kept in bytes (the source
\* adds length / 1024).
handleIncomingData(m, p, f) ==
  LET m1 == [m EXCEPT !.networkStats.dataReceived = @ + FrameSize(f)]
      m2 == IF m1.socket /\ Truthy(m1.userId)
            THEN SocketEmit(m1, "data-transfer")
            ELSE m1
  IN  IF has(m2, p)
      THEN Emit(m2, [Note("message", p, get(m2, p).conn, f.type) EXCEPT
                       !.userId = RecOf(m2, get(m2, p)).userId, !.data = f])
      ELSE m2

\* conn.on('data') of connectToPeer
OutOnData(m, c, f) ==
  LET p  == m.conns[c].peer
      m1 == IF f.type = "HANDSHAKE" /\ ~Truthy(m.conns[c].userId) /\ has(m, p)
               /\ f.userId # NoUser
            THEN [m EXCEPT !.conns[get(m, p).conn].rec.userId = f.userId]
            ELSE m
  IN  handleIncomingData(m1, p, f)

\* conn.on('data') of handleIncomingConnection
InOnData(m, c, f) == handleIncomingData(m, m.conns[c].peer, f)

\* peerConn.connection.on('data') of measureConnectionQuality
MonitorOnData(m, c, f) ==
  IF f.type = "PING" THEN Send(m, c, "PONG")
  ELSE IF f.type = "PONG"
  THEN updateConnectionStrength(RunPong(m, c, f.rtt), c, f.rtt)
  ELSE m

\* A frame arrives on connection c: its 'data' listeners run in the order
\* they were added.
OnData(m, c, f) ==
  LET m1 == IF m.conns[c].dir = "out" THEN OutOnData(m, c, f) ELSE InOnData(m, c, f)
  IN  IF m.conns[c].rec # NoRec THEN MonitorOnData(m1, c, f) ELSE m1

\* one tick of the ping interval of connection c's PeerConnection
OnProbeTick(m, c) ==
  IF m.conns[c].st # "open" \/ ~has(m, m.conns[c].peer)
  THEN [m EXCEPT !.conns[c].probe = FALSE]
  ELSE Send(m, c, "PING")

(* ------------------------------- sending ------------------------------ *)

\* an exception that leaves a public method
Throw(m) == Emit(m, Note("throw", NoId, 0, ""))

\* sendToPeer without the try/catch around the write
sendToPeerUncaught(m, p, f, ok) ==
  IF has(m, p) /\ m.conns[get(m, p).conn].st = "open"
  THEN IF ok
       THEN LET m1 == SendFrame(m, get(m, p).conn, f)
                m2 == [m1 EXCEPT !.networkStats.dataShared = @ + FrameSize(f)]
                m3 == IF m2.socket /\ Truthy(m2.userId)
                      THEN SocketEmit(m2, "data-transfer")
                      ELSE m2
            IN  Return(m3, "true")
       ELSE Throw(m)
  ELSE Return(m, "false")

\* sendToPeer(peerId, data).  ok: connection.send did not throw.
sendToPeer(m, p, f, ok) ==
  IF has(m, p) /\ m.conns[get(m, p).conn].st = "open"
  THEN IF ok
       THEN LET m1 == SendFrame(m, get(m, p).conn, f)
                m2 == [m1 EXCEPT !.networkStats.dataShared = @ + FrameSize(f)]
                m3 == IF m2.socket /\ Truthy(m2.userId)
                      THEN SocketEmit(m2, "data-transfer")
                      ELSE m2
            IN  Return(m3, "true")
       ELSE Return(m, "false")
  ELSE Return(m, "false")

\* socket.on('reconnect')
onSocketReconnect(m) ==
  IF m.peerId # NoId /\ Truthy(m.userId)
  THEN EmitRegister(m, m.peerId, m.userId)
  ELSE m

(* ------------------------------- cleanup ------------------------------ *)

RECURSIVE CloseRegistered(_, _), DestroyPeer(_, _)

\* for (const conn of this.connections.values()) if (conn.connection.open) conn.connection.close();
\* entries removed by a 'close' handler during the loop are not visited.
CloseRegistered(m, c) ==
  IF c \notin DOMAIN m.conns THEN m
  ELSE CloseRegistered(
         IF (\E e \in m.connections : e.conn = c) /\ m.conns[c].st = "open"
         THEN ConnClose(m, c)
         ELSE m,
         c + 1)

\* PeerJS Peer.destroy(): closes every connection of the peer
DestroyPeer(m, c) ==
  IF c \notin DOMAIN m.conns THEN m
  ELSE DestroyPeer(ConnClose(m, c), c + 1)

\* this.peer.destroy(); on null it is a TypeError
destroy(m) == IF m.peer = "null" THEN Throw(m) ELSE DestroyPeer(m, 1)

\* cleanup that leaves the socket as it is
cleanupKeepsSocket(m) ==
  LET m1 == CloseRegistered(m, 1)
      m2 == [m1 EXCEPT !.connections = {}]
      m3 == IF m2.peer # "null"
            THEN [destroy(m2) EXCEPT !.peer = "null"]
            ELSE m2
  IN  [m3 EXCEPT !.networkStats = ZeroStats,
                 !.hist = [dials |-> [p \in Peers |-> 0],
                           single |-> [p \in Peers |-> FALSE],
                           run |-> NoRun,
                           cleanups |-> @.cleanups + 1,
                           told |-> @.told]]

\* cleanup without the test of this.peer
cleanupUnguarded(m) ==
  LET m1 == CloseRegistered(m, 1)
      m2 == [m1 EXCEPT !.connections = {}]
      m3 == [destroy(m2) EXCEPT !.peer = "null"]
      m4 == [m3 EXCEPT !.socket = FALSE]
  IN  [m4 EXCEPT !.networkStats = ZeroStats,
                 !.hist = [dials |-> [p \in Peers |-> 0],
                           single |-> [p \in Peers |-> FALSE],
                           run |-> NoRun,
                           cleanups |-> @.cleanups + 1,
                           told |-> @.told]]

cleanup(m) ==
  LET m1 == CloseRegistered(m, 1)
      m2 == [m1 EXCEPT !.connections = {}]
      m3 == IF m2.peer # "null"
            THEN [destroy(m2) EXCEPT !.peer = "null"]
            ELSE m2
      m4 == [m3 EXCEPT !.socket = FALSE]
  IN  [m4 EXCEPT !.networkStats = ZeroStats,
                 !.hist = [dials |-> [p \in Peers |-> 0],
                           single |-> [p \in Peers |-> FALSE],
                           run |-> NoRun,
                           cleanups |-> @.cleanups + 1,
                           told |-> @.told]]

(* -------------------------------- chat -------------------------------- *)

\* The chat messages the user submits, each one once; a message is named by
\* its content.
Msgs == 1 .. MaxMsgs
\* recipientId of the ChatInput: the user of remote peer 1
Recipient == RemoteUser(1)
\* A call of handleSubmit: where it is (idle, posting, stored, failed, done),
\* the id in the server's response, and the peerId of the recipientConnection
\* its closure holds (NoId: none, or the hook is not initialized).
NoSend == [st |-> "idle", id |-> 0, to |-> NoId]

\* the hook's initialized: set once init has resolved, reset with cleanup()
initialized(m) == m.promise = "resolved" /\ m.peer # "null"

\* connections.find(conn => conn.userId === recipientId), as the peerId of
\* the record found; the hook's connections are those of the registry, which
\* it reads again on every connect and disconnect notification
recipientConnection(m, u) ==
  LET found == {e \in m.connections : RecOf(m, e).userId = u}
  IN  IF found = {} THEN NoId
      ELSE (CHOOSE e \in found : \A x \in found : e.peerId <= x.peerId).peerId

\* handleSubmit up to its await of the POST
handleSubmit(m, k) ==
  [m EXCEPT !.chat.sends[k] =
     [st |-> "posting", id |-> 0,
      to |-> IF initialized(m) THEN recipientConnection(m, Recipient) ELSE NoId]]

\* MemStorage.createMessage: const id = this.currentMessageId++; messages.set(id, message)
createMessage(m, k) ==
  LET id == m.chat.currentMessageId
  IN  [m EXCEPT !.chat.currentMessageId = id + 1,
                !.chat.messages = [i \in DOMAIN @ \cup {id} |->
                                     IF i = id THEN k ELSE @[i]]]

\* app.post('/api/messages').  ok: the body parses and the store succeeds (201
\* with the stored message); otherwise 400 or 500 and nothing is stored.
postMessages(m, k, ok) ==
  IF ok
  THEN [createMessage(m, k) EXCEPT !.chat.sends[k].st = "stored",
                                   !.chat.sends[k].id = m.chat.currentMessageId]
  ELSE [m EXCEPT !.chat.sends[k].st = "failed"]

\* the frame handleSubmit pushes for message k stored under id
MessageFrame(k, id) ==
  [NoFrame EXCEPT !.type = "MESSAGE", !.messageId = id, !.content = k]

\* handleSubmit that pushes the frame whatever the response was
handleSubmitResumeUnchecked(m, k, ok) ==
  LET s  == m.chat.sends[k]
      m1 == [m EXCEPT !.chat.sends[k] = [NoSend EXCEPT !.st = "done"]]
  IN  IF s.to # NoId
      THEN sendToPeer(m1, s.to, MessageFrame(k, s.id), ok)
      ELSE m1

\* handleSubmit after the await: a response that is not ok throws into the
\* catch; otherwise the frame is pushed if (initialized && recipientConnection).
\* ok: connection.send did not throw.
handleSubmitResume(m, k, ok) ==
  LET s  == m.chat.sends[k]
      m1 == [m EXCEPT !.chat.sends[k] = [NoSend EXCEPT !.st = "done"]]
  IN  IF s.st = "failed" THEN m1
      ELSE IF s.to # NoId
      THEN sendToPeer(m1, s.to, MessageFrame(k, s.id), ok)
      ELSE m1

(* ------------------------------- actions ------------------------------ *)

\* The handler that ran, and what held before it ran.
Op(name, p, c) ==
  [op |-> name, peerId |-> p,
   had |-> has(Cur, p),
   wasOpen |-> IF c \in DOMAIN conns THEN conns[c].st = "open" ELSE FALSE,
   conn |-> 0, arg |-> NoFrame]

\* The same for a handler that is given a frame: the connection and the frame.
OpOn(name, p, c, f) == [Op(name, p, c) EXCEPT !.conn = c, !.arg = f]

Init ==
  /\ peer = "null"
  /\ promise = "none"
  /\ peerId = NoId
  /\ userId = NoUser
  /\ socket = FALSE
  /\ connections = {}
  /\ networkStats = ZeroStats
  /\ conns = [c \in 1 .. MaxConns |-> FreeConn]
  /\ chat = [currentMessageId |-> 1, messages |-> <<>>,
             sends |-> [k \in Msgs |-> NoSend]]
  /\ timers = EmptyBag
  /\ hist = [dials |-> [p \in Peers |-> 0],
             single |-> [p \in Peers |-> TRUE],
             run |-> NoRun,
             cleanups |-> 0,
             told |-> [p \in Peers |-> FALSE]]
  /\ notes = <<>>
  /\ last = [op |-> "new", peerId |-> NoId, had |-> FALSE, wasOpen |-> FALSE,
             conn |-> 0, arg |-> NoFrame]

\* init(userId), called by useP2P.initialize when not initialized
InitCall(u) ==
  /\ peer = "null"
  /\ Commit([Cur EXCEPT !.promise = "pending", !.socket = TRUE, !.userId = u,
                        !.peer = "new"],
            Op("init", NoId, 0))

\* resolve(id) / reject(err) of the Promise of init: a settled Promise stays
\* as it is
resolve(m) == IF m.promise = "pending" THEN [m EXCEPT !.promise = "resolved"] ELSE m
reject(m)  == IF m.promise = "pending" THEN [m EXCEPT !.promise = "rejected"] ELSE m

\* peer.on('open')
PeerOpen ==
  /\ peer = "new"
  /\ LET m1 == [Cur EXCEPT !.peer = "open", !.peerId = LocalId]
         m2 == IF m1.socket THEN EmitRegister(m1, LocalId, m1.userId) ELSE m1
     IN  Commit(resolve(m2), Op("peer-open", NoId, 0))

\* the 'error' listener of the peer; the reconnect it schedules when the peer
\* id is known calls only into PeerJS
onPeerError(m) == IF m.peerId = NoId THEN reject(m) ELSE m

\* peer.on('error').  An error before the peer has opened comes with the peer
\* destroyed (PeerJS aborts a peer that never had an id); one after it has
\* opened leaves it open here.
PeerError ==
  /\ peer \in {"new", "open"}
  /\ Commit(onPeerError([Cur EXCEPT !.peer = IF peer = "new" THEN "dead" ELSE @]),
            Op("peer-error", NoId, 0))

\* socket.on('active-peers'): one staggered timer per listed peer
RECURSIVE Stagger(_, _)
Stagger(m, ps) ==
  IF ps = {} THEN m
  ELSE LET p == CHOOSE q \in ps : \A r \in ps : q <= r
       IN  Stagger(setTimeout(m, RetryTimer("stagger", p, RemoteUser(p), 0)),
                   ps \ {p})

ActivePeers(ps) ==
  /\ socket /\ peer = "open"
  /\ Commit(Stagger(Cur, ps), Op("active-peers", NoId, 0))

\* socket.on('peer-joined')
PeerJoined(p, ok) ==
  /\ socket
  /\ Commit(connectToPeer(Cur, p, RemoteUser(p), 0, ok), Op("peer-joined", p, 0))

\* socket.on('peer-left')
PeerLeft(p) ==
  /\ socket
  /\ Commit(handlePeerDisconnection(Cur, p), Op("peer-left", p, 0))

\* connectToPeer(peerId) called through the public interface; the local id
\* can be named only once the server has issued it.
ConnectToPeerCall(p, u, ok) ==
  /\ p = LocalId => peerId = LocalId
  /\ Commit(connectToPeer(Cur, p, u, 0, ok), Op("connectToPeer", p, 0))

\* a pending setTimeout callback runs: connectToPeer(peerId, userId, retryCount)
TimerFire(t, ok) ==
  /\ BagIn(t, timers)
  /\ LET m1 == [Cur EXCEPT !.timers = @ (-) SetToBag({t})]
     IN  Commit(connectToPeer(m1, t.peerId, t.userId, t.retryCount, ok),
                Op("timer", t.peerId, 0))

\* peer.on('connection')
Incoming(p) ==
  /\ peer = "open"
  /\ Commit(handleIncomingConnection(Cur, p), Op("connection", p, 0))

\* the 'open' event of connection c; the offer and the answer travel through
\* the PeerJS server, so the local peer is open by then
ConnOpen(c) ==
  /\ peer = "open"
  /\ conns[c].st = "connecting"
  /\ LET m1 == [Cur EXCEPT !.conns[c].st = "open"]
     IN  Commit(IF conns[c].dir = "out" THEN OutOnOpen(m1, c) ELSE InOnOpen(m1, c),
                Op("open", conns[c].peer, c))

\* the remote end closes connection c
ConnRemoteClose(c) ==
  /\ conns[c].st = "open"
  /\ Commit(ConnClose(Cur, c), Op("close", conns[c].peer, c))

\* connection c fails: PeerJS emits 'error' and then closes the connection
ConnError(c) ==
  /\ conns[c].st \in {"connecting", "open"}
  /\ Commit(ConnClose(OnError(Cur, c), c), Op("error", conns[c].peer, c))

\* the establish-timeout of the dial that made connection c fires
ConnTimeout(c) ==
  /\ conns[c].timeout = "pending"
  /\ Commit(OnTimeout(Cur, c), Op("timeout", conns[c].peer, c))

\* a frame arrives on connection c
ConnData(c, f) ==
  /\ conns[c].st = "open"
  /\ Commit(OnData(Cur, c, f), OpOn("data", conns[c].peer, c, f))

\* the ping interval of connection c ticks
ProbeTick(c) ==
  /\ conns[c].probe
  /\ Commit(OnProbeTick(Cur, c), Op("probe", conns[c].peer, c))

\* sendToPeer(peerId, data) called through the public interface
SendToPeerCall(p, f, ok) ==
  Commit(sendToPeer(Cur, p, f, ok), OpOn("sendToPeer", p, 0, f))

\* the signaling socket reconnects: socket.on('reconnect')
SocketReconnect ==
  /\ socket
  /\ Commit(onSocketReconnect(Cur), Op("reconnect", NoId, 0))

\* cleanup()
CleanupCall == Commit(cleanup(Cur), Op("cleanup", NoId, 0))

Next ==
  \/ InitCall(LocalUser)
  \/ PeerOpen
  \/ \E ps \in SUBSET Peers \ {{}} : ActivePeers(ps)
  \/ \E p \in Peers, ok \in BOOLEAN : PeerJoined(p, ok)
  \/ \E p \in Peers : PeerLeft(p)
  \/ \E p \in Peers \cup {LocalId}, ok \in BOOLEAN :
       \E u \in CallUsers(p) : ConnectToPeerCall(p, u, ok)
  \/ \E t \in BagToSet(timers), ok \in BOOLEAN : TimerFire(t, ok)
  \/ \E p \in Peers : Incoming(p)
  \/ \E c \in DOMAIN conns : ConnOpen(c)
  \/ \E c \in DOMAIN conns : ConnRemoteClose(c)
  \/ \E c \in DOMAIN conns : ConnError(c)
  \/ \E c \in DOMAIN conns : ConnTimeout(c)
  \/ \E c \in DOMAIN conns, f \in PongFrames :
       ConnData(c, f) /\ networkStats'.dataReceived <= MaxBytes
  \/ \E c \in DOMAIN conns : ProbeTick(c)
  \/ CleanupCall /\ hist'.cleanups <= MaxCleanups

Spec == Init /\ [][Next]_vars

\* The data path: connections are dialed and accepted, open and are closed by
\* the remote end, and frames of every kind arrive on them.  No connection
\* fails or times out here.
NextData ==
  \/ InitCall(LocalUser)
  \/ PeerOpen
  \/ \E p \in Peers :
       \E u \in CallUsers(p) \cup {NoUser} : ConnectToPeerCall(p, u, TRUE)
  \/ \E p \in Peers : Incoming(p)
  \/ \E c \in DOMAIN conns : ConnOpen(c)
  \/ \E c \in DOMAIN conns : ConnRemoteClose(c)
  \/ \E c \in DOMAIN conns, f \in Frames :
       ConnData(c, f) /\ networkStats'.dataReceived <= MaxBytesData

SpecData == Init /\ [][NextData]_vars

\* The life of the manager: init with either user id, connections that open,
\* carry a frame each way and are closed, reconnects of the signaling socket,
\* and cleanup(), twice and before init as well.
NextLife ==
  \/ \E u \in LocalUsers : InitCall(u)
  \/ PeerOpen
  \/ \E p \in Peers : \E u \in CallUsers(p) : ConnectToPeerCall(p, u, TRUE)
  \/ \E p \in Peers : Incoming(p)
  \/ \E c \in DOMAIN conns : ConnOpen(c)
  \/ \E c \in DOMAIN conns : ConnRemoteClose(c)
  \/ \E c \in DOMAIN conns, f \in AppFrames :
       ConnData(c, f) /\ networkStats'.dataReceived <= MaxSent
  \/ \E p \in Peers, f \in AppFrames, ok \in BOOLEAN :
       SendToPeerCall(p, f, ok) /\ networkStats'.dataShared <= MaxSent
  \/ SocketReconnect
  \/ CleanupCall /\ hist'.cleanups <= MaxCleanupsLife

SpecLife == Init /\ [][NextLife]_vars

\* the user submits chat message k to the recipient
ChatSubmit(k) ==
  /\ chat.sends[k].st = "idle"
  /\ Commit(handleSubmit(Cur, k), OpOn("submit", NoId, 0, MessageFrame(k, 0)))

\* the server handles the POST of message k
ServerPost(k, ok) ==
  /\ chat.sends[k].st = "posting"
  /\ Commit(postMessages(Cur, k, ok), OpOn("post", NoId, 0, MessageFrame(k, 0)))

\* the response for message k arrives and handleSubmit goes on
ChatResume(k, ok) ==
  /\ chat.sends[k].st \in {"stored", "failed"}
  /\ Commit(handleSubmitResume(Cur, k, ok),
            OpOn("resume", chat.sends[k].to, 0, MessageFrame(k, chat.sends[k].id)))

\* The chat path: the manager is initialized, connections to the recipient's
\* peer are dialed and accepted, open, receive the HANDSHAKE and are closed,
\* and the user submits messages that the server stores or refuses.
NextChat ==
  \/ InitCall(LocalUser)
  \/ PeerOpen
  \/ \E p \in Peers : \E u \in CallUsers(p) : ConnectToPeerCall(p, u, TRUE)
  \/ \E p \in Peers : Incoming(p)
  \/ \E c \in DOMAIN conns : ConnOpen(c)
  \/ \E c \in DOMAIN conns : ConnRemoteClose(c)
  \/ \E c \in DOMAIN conns, f \in HandshakeFrames :
       ConnData(c, f) /\ networkStats'.dataReceived <= MaxSent
  \/ \E k \in Msgs : ChatSubmit(k)
  \/ \E k \in Msgs, ok \in BOOLEAN : ServerPost(k, ok)
  \/ \E k \in Msgs, ok \in BOOLEAN : ChatResume(k, ok)

SpecChat == Init /\ [][NextChat]_vars

\* The Promise of init: the peer opens or reports an error, connections are
\* accepted, and the hook calls cleanup() and init() again.  PeerJS reports
\* the outcome of every new peer: its 'open' or an 'error'.
NextInit ==
  \/ InitCall(LocalUser)
  \/ PeerOpen
  \/ PeerError
  \/ \E p \in Peers : Incoming(p)
  \/ \E c \in DOMAIN conns : ConnOpen(c)
  \/ \E c \in DOMAIN conns : ConnRemoteClose(c)
  \/ SocketReconnect
  \/ CleanupCall /\ hist'.cleanups <= MaxCleanupsLife

SpecInit == Init /\ [][NextInit]_vars /\ WF_vars(PeerOpen \/ PeerError)

(* ------------------------------- claims ------------------------------- *)

OpenTo(p)  == {c \in DOMAIN conns : conns[c].peer = p /\ conns[c].st = "open"}
AliveTo(p) == {c \in DOMAIN conns : conns[c].peer = p /\ conns[c].st # "free"}
\* the pending timers of the dial logic for peer p (retry or reconnect dials)
TimersFor(p) ==
  {t \in BagToSet(timers) : t.peerId = p /\ t.kind \in {"retry", "reconnect"}}
\* the timers a step added
Added == timers' (-) timers
DialOps == {"connectToPeer", "peer-joined", "timer"}
NotesOf(ns, kind, p) == {i \in DOMAIN ns : ns[i].kind = kind /\ ns[i].peerId = p}

\* C1: in every reachable state the registry holds at most one record for each
\* peerId.
C1_AtMostOneRecord ==
  \A e1, e2 \in connections : e1.peerId = e2.peerId => e1 = e2

\* C1 witness: two connections with the same peer are open (a dial and an
\* accept, or two dials) and the registry holds a record for the peer.
C1_Witness ==
  \E p \in Peers : Cardinality(OpenTo(p)) = 2 /\ has(Cur, p)

\* C2: a peer dialed on one request, whose attempts all end by establish-timeout
\* or error without reaching Open, has a transport opened to it at most
\* MAX_RETRIES + 1 times; once the last attempt has ended and no timer for the
\* peer is pending, it has been dialed exactly MAX_RETRIES + 1 times and the
\* registry has no record for it.
C2_RetryBudget ==
  \A p \in Peers :
    hist.single[p] =>
      /\ hist.dials[p] <= MAX_RETRIES + 1
      /\ (hist.dials[p] >= 1 /\ AliveTo(p) = {} /\ TimersFor(p) = {})
           => (hist.dials[p] = MAX_RETRIES + 1 /\ ~has(Cur, p))
      /\ (hist.dials[p] = MAX_RETRIES + 1 /\ AliveTo(p) = {}) => TimersFor(p) = {}

\* C2 witness: the fourth attempt has ended and nothing is left for the peer.
C2_Witness ==
  \E p \in Peers :
    /\ hist.single[p] /\ hist.dials[p] = MAX_RETRIES + 1
    /\ AliveTo(p) = {} /\ TimersFor(p) = {}

\* C3: whenever a connection that was Open is closed by the remote or raises an
\* error, the record is removed, disconnect-subscribers are notified and exactly
\* one reconnect dial to that peer is scheduled.
C3_ReconnectAfterDrop ==
  [][(last'.op \in {"close", "error"} /\ last'.wasOpen) =>
       /\ \A e \in connections' : e.peerId # last'.peerId
       /\ NotesOf(notes', "disconnect", last'.peerId) # {}
       /\ BagCardinality(Added) = 1
       /\ \A t \in BagToSet(Added) : t.peerId = last'.peerId]_vars

\* C4: every redial scheduled by the close or error of a connection that was
\* Open starts with retryCount = 0.
C4_ReconnectResetsBudget ==
  [][(last'.op \in {"close", "error"} /\ last'.wasOpen) =>
       \A t \in BagToSet(Added) : t.retryCount = 0]_vars

\* C5: at most one dial attempt per peerId is in flight at any time.
C5_OneDialInFlight ==
  \A p \in Peers :
    Cardinality({c \in DOMAIN conns :
                   /\ conns[c].peer = p /\ conns[c].dir = "out"
                   /\ conns[c].st = "connecting" /\ conns[c].timeout = "pending"}) <= 1

\* C6: connectToPeer(peerId) for a peer the registry already has a record for,
\* or for the local peer id, opens no transport, schedules no timer, leaves the
\* registry and the stats as they are and emits nothing.
C6_DuplicateDialNoOp ==
  [][(last'.op \in DialOps /\ (last'.had \/ last'.peerId = peerId)) =>
       /\ connections' = connections
       /\ networkStats' = networkStats
       /\ conns' = conns
       /\ notes' = <<>>
       /\ IF last'.op = "timer"
          THEN BagCardinality(timers (-) timers') = 1 /\ BagCardinality(Added) = 0
          ELSE timers' = timers]_vars

\* C6 witness: peer-joined arrived for a peer that had a record.
C6_Witness == last.op = "peer-joined" /\ last.had

\* C7: when a connection opens while the registry holds a record for the same
\* peer, the record is kept and connect-subscribers are not notified again.
C7_LaterArrivalDiscarded ==
  [][(last'.op = "open" /\ last'.had) =>
       /\ connections' = connections
       /\ NotesOf(notes', "connect", last'.peerId) = {}]_vars

\* C8: every open connection is the connection of exactly one record, and every
\* record's connection is open.
C8_RecordChannelBijection ==
  /\ \A c \in DOMAIN conns :
       conns[c].st = "open" => Cardinality({e \in connections : e.conn = c}) = 1
  /\ \A e \in connections :
       conns[e.conn].st = "open" /\ conns[e.conn].peer = e.peerId

\* C9: after this node dialed a peer and that peer dialed this node, there is
\* never more than one Open connection between the two.
C9_NoDuplicateOpenPair ==
  \A c1, c2 \in DOMAIN conns :
    ~ /\ conns[c1].dir = "out" /\ conns[c2].dir = "in"
      /\ conns[c1].peer = conns[c2].peer
      /\ conns[c1].st = "open" /\ conns[c2].st = "open"

\* C10: getNetworkStats() is the projection of the registry after every handler
\* and whenever a connect or disconnect subscriber is called: totalPeers is the
\* number of records, each tier count the number of records of the tier, and
\* the three tier counts add up to totalPeers.
C10_StatsProjection ==
  /\ StatsMatch(Cur)
  /\ \A i \in DOMAIN notes :
       notes[i].kind \in {"connect", "disconnect"} => notes[i].statsOk

\* C10 witness: a PONG has moved the one record out of the tier it opened in,
\* and the stats count it there.
C10_Witness ==
  /\ last.op = "data"
  /\ networkStats.totalPeers = 1
  /\ networkStats.strongConnections = 1

ProbeTypes == {"PING", "PONG", "HANDSHAKE"}
\* the tier the thresholds give an RTT
TierOf(rtt) == IF rtt < 100 THEN "strong" ELSE IF rtt < 300 THEN "medium" ELSE "weak"
StrengthReports(ns) ==
  {i \in DOMAIN ns : ns[i].kind = "emit" /\ ns[i].payload = "connection-strength"}

\* C11: handlers registered through onMessage are never called with a frame
\* whose type is PING, PONG or HANDSHAKE.
C11_NoProbeLeak ==
  \A i \in DOMAIN notes :
    notes[i].kind = "message" => notes[i].data.type \notin ProbeTypes

\* C12: a PONG from a registered peer emits a tier-change report exactly when
\* the tier of its RTT differs from the tier recorded for the peer, and then
\* exactly one, carrying the new tier.
C12_TierChangeReported ==
  [][(last'.op = "data" /\ last'.arg.type = "PONG" /\ last'.had) =>
       LET recorded == RecOf(Cur, get(Cur, last'.peerId)).strength
           new      == TierOf(last'.arg.rtt)
       IN  IF new = recorded
           THEN StrengthReports(notes') = {}
           ELSE /\ Cardinality(StrengthReports(notes')) = 1
                /\ \A i \in StrengthReports(notes') : notes'[i].tier = new]_vars

\* C13: for a newly opened peer whose first four PONGs yield 50, 50, 250 and
\* 400 ms, the tier changes reported over the sequence are exactly three:
\* medium to strong at the first PONG, strong to medium at the 250 ms PONG,
\* medium to weak at the 400 ms PONG.
C13_ScenarioThreeChanges ==
  hist.run.rtts = Scenario =>
    hist.run.events = << <<"medium", "strong">>, <<"strong", "medium">>,
                         <<"medium", "weak">> >>

\* C13 as stated: the tier changes reported over the sequence are exactly two,
\* strong to medium at the 250 ms PONG and medium to weak at the 400 ms PONG.
C13_ScenarioTwoChanges ==
  hist.run.rtts = Scenario =>
    hist.run.events = << <<"strong", "medium">>, <<"medium", "weak">> >>

\* C13 witness: the four PONGs of the scenario have arrived.
C13_Witness == hist.run.conn # 0 /\ hist.run.rtts = Scenario

\* C14: updateConnectionStrength classifies an RTT below 100 as strong, from
\* 100 and below 300 as medium, from 300 as weak, for every RTT up to MaxRtt,
\* and the tier recorded for the connection after a PONG is that tier.
C14_TierClassification ==
  /\ [](\A rtt \in 0 .. MaxRtt :
          /\ rtt < 100 => Classify(rtt) = "strong"
          /\ (100 <= rtt /\ rtt < 300) => Classify(rtt) = "medium"
          /\ rtt >= 300 => Classify(rtt) = "weak")
  /\ [][(last'.op = "data" /\ last'.arg.type = "PONG") =>
          conns'[last'.conn].rec.strength = TierOf(last'.arg.rtt)]_vars

\* C14 witness: a PONG with an RTT of exactly 300 ms has made a record weak.
C14_Witness ==
  /\ last.op = "data" /\ last.arg.type = "PONG" /\ last.arg.rtt = 300
  /\ conns[last.conn].rec.strength = "weak"

KindOf(ns, kind) == {i \in DOMAIN ns : ns[i].kind = kind}
\* the manager's own fields and objects, without the history and the outputs
Program == <<peer, peerId, userId, socket, connections, networkStats, conns, timers>>

\* C15: when cleanup() returns, every connection the registry held is closed,
\* the registry is empty, the socket is dropped and the six NetworkStats fields
\* are 0.
C15_CleanupPostcondition ==
  [][last'.op = "cleanup" =>
       /\ \A e \in connections : conns'[e.conn].st \in {"closed", "free"}
       /\ connections' = {}
       /\ ~socket'
       /\ networkStats' = ZeroStats]_vars

\* C15 witness: cleanup has run on a manager with a registered open connection
\* (its disconnect subscribers were called) and left nothing.
C15_Witness ==
  /\ last.op = "cleanup" /\ KindOf(notes, "disconnect") # {}
  /\ connections = {} /\ ~socket /\ networkStats = ZeroStats

\* C16: cleanup() called right after cleanup(), or on a manager nothing was
\* called on yet, raises no error and leaves the manager as it was, with
\* NetworkStats all zero.
C16_CleanupIdempotent ==
  [][(last'.op = "cleanup" /\ last.op \in {"cleanup", "new"}) =>
       /\ KindOf(notes', "throw") = {}
       /\ Program' = Program
       /\ networkStats' = ZeroStats]_vars

\* C16 witness: cleanup has been called twice on a manager init was never
\* called on.
C16_Witness ==
  last.op = "cleanup" /\ hist.cleanups = 2 /\ userId = NoUser /\ peer = "null"

\* C17: sendToPeer returns false and changes nothing when the registry has no
\* record for the peer or the record's connection is not open; otherwise it
\* writes one frame on the record's connection, adds the size of the data to
\* dataShared and returns true, or, when the write fails, returns false; it
\* never throws.
C17_SendToPeer ==
  [][last'.op = "sendToPeer" =>
       LET p    == last'.peerId
           f    == last'.arg
           sent == KindOf(notes', "send")
           ret  == {notes'[i].payload : i \in KindOf(notes', "return")}
       IN  /\ KindOf(notes', "throw") = {}
           /\ Cardinality(KindOf(notes', "return")) = 1
           /\ <<peer, peerId, userId, socket, connections, conns, timers>>' =
                <<peer, peerId, userId, socket, connections, conns, timers>>
           /\ IF has(Cur, p) /\ conns[get(Cur, p).conn].st = "open"
              THEN \/ /\ ret = {"true"}
                      /\ Cardinality(sent) = 1
                      /\ \A i \in sent : /\ notes'[i].conn = get(Cur, p).conn
                                         /\ notes'[i].data = f
                      /\ networkStats' =
                           [networkStats EXCEPT !.dataShared = @ + FrameSize(f)]
                   \/ /\ ret = {"false"}
                      /\ networkStats' = networkStats
                      /\ KindOf(notes', "emit") = {}
              ELSE /\ ret = {"false"}
                   /\ sent = {}
                   /\ KindOf(notes', "emit") = {}
                   /\ networkStats' = networkStats]_vars

\* C17 witness: a frame was written to a registered peer and counted.
C17_Witness ==
  /\ last.op = "sendToPeer" /\ last.had
  /\ \E i \in KindOf(notes, "return") : notes[i].payload = "true"
  /\ networkStats.dataShared = FrameSize(last.arg)

\* C18: a HANDSHAKE with a numeric userId that arrives on the connection of a
\* record, dialed or accepted, sets the record's userId when it was unknown,
\* leaves it when it was known, and calls no connect subscriber.
C18_HandshakeResolvesUser ==
  [][(/\ last'.op = "data" /\ last'.arg.type = "HANDSHAKE" /\ last'.had
      /\ get(Cur, last'.peerId).conn = last'.conn) =>
       LET before == conns[last'.conn].rec.userId
           after  == conns'[last'.conn].rec.userId
       IN  /\ after = IF before = NoUser THEN last'.arg.userId ELSE before
           /\ KindOf(notes', "connect") = {}]_vars

\* C19: a frame of any type other than PING, PONG and HANDSHAKE that arrives
\* on a connection of a registered peer is handed to the onMessage subscribers
\* exactly once, unmodified, with the sender's peerId and the userId of the
\* peer's record.
C19_FramesForwarded ==
  [][(last'.op = "data" /\ last'.arg.type \notin ProbeTypes /\ last'.had) =>
       /\ Cardinality(KindOf(notes', "message")) = 1
       /\ \A i \in KindOf(notes', "message") :
            /\ notes'[i].data = last'.arg
            /\ notes'[i].peerId = last'.peerId
            /\ notes'[i].userId = RecOf(Cur, get(Cur, last'.peerId)).userId]_vars

\* C19 witness: a frame of a type no component knows reached the subscribers
\* with the user id of the record.
C19_Witness ==
  /\ last.op = "data" /\ last.arg.type = "UNKNOWN"
  /\ \E i \in KindOf(notes, "message") :
       notes[i].data = last.arg /\ notes[i].userId = RemoteUser(last.peerId)

\* C20: once the local peer id is known, every reconnect of the signaling
\* socket emits register-peer with the local peerId and userId, whatever the
\* userId, 0 included.
C20_ReRegistration ==
  [][(last'.op = "reconnect" /\ peerId # NoId) =>
       \E i \in KindOf(notes', "emit") :
         /\ notes'[i].payload = "register-peer"
         /\ notes'[i].peerId = peerId
         /\ notes'[i].userId = userId]_vars

\* the connection whose establish-timeout a step has run
TimedOut(c) == conns[c].timeout = "pending" /\ conns'[c].timeout # "pending"

\* C22: when the establish-timeout of a dial fires and the attempt has not
\* opened, the transport is closed and a redial carrying retryCount + 1 is
\* scheduled exactly when retryCount + 1 < 3, whether or not the registry
\* holds a record for the peer from another connection.
C22_EstablishTimeoutStep ==
  [][\A c \in DOMAIN conns :
       (last'.op = "timeout" /\ TimedOut(c) /\ conns[c].st = "connecting") =>
         /\ conns'[c].st \in {"closed", "free"}
         /\ (conns[c].retryCount + 1 < MAX_RETRIES) <=>
              \E t \in BagToSet(Added) :
                /\ t.peerId = conns[c].peer
                /\ t.retryCount = conns[c].retryCount + 1
         /\ (conns[c].retryCount + 1 >= MAX_RETRIES) => Added = EmptyBag]_vars

\* the connection a step has opened
Opened(c) == conns[c].st = "connecting" /\ conns'[c].st = "open"

\* C23: every connection that opens, dialed or accepted, becomes the
\* connection of the peer's record, gets its ping interval, has a HANDSHAKE
\* with the local userId sent on it, and connect-subscribers are called once.
C23_OpenSameBothWays ==
  [][\A c \in DOMAIN conns :
       (last'.op = "open" /\ Opened(c)) =>
         /\ [peerId |-> conns[c].peer, conn |-> c] \in connections'
         /\ conns'[c].probe
         /\ \E i \in KindOf(notes', "send") :
              /\ notes'[i].conn = c
              /\ notes'[i].payload = "HANDSHAKE"
              /\ notes'[i].userId = userId
         /\ Cardinality(NotesOf(notes', "connect", conns[c].peer)) = 1]_vars

\* C24: a PING is sent only on a connection that is open and is the connection
\* of its peer's record; a tick of the ping interval of any other connection
\* sends nothing and clears the interval.
C24_ProbeStopsWithRecord ==
  [][/\ \A i \in KindOf(notes', "send") :
          notes'[i].payload = "PING" =>
            /\ conns[notes'[i].conn].st = "open"
            /\ [peerId |-> notes'[i].peerId, conn |-> notes'[i].conn] \in connections
     /\ (last'.op = "probe" /\ notes' = <<>>) =>
          \E c \in DOMAIN conns : conns[c].probe /\ ~conns'[c].probe]_vars

\* C25: connectToPeer called while the manager has no local peer (before init,
\* or after cleanup) throws to its caller.
C25_DialWithoutPeerThrows ==
  [][(last'.op = "connectToPeer" /\ peer = "null") =>
       KindOf(notes', "throw") # {}]_vars

\* C27: a close or an error of a connection that is not the connection of its
\* peer's record leaves the registry, the record's connection and the network
\* stats as they are and calls no disconnect subscriber.
C27_StaleCloseHarmless ==
  [][\A c \in DOMAIN conns :
       (/\ last'.op \in {"close", "error"}
        /\ conns[c].st \in {"connecting", "open"}
        /\ conns'[c].st \in {"closed", "free"}
        /\ [peerId |-> conns[c].peer, conn |-> c] \notin connections) =>
         /\ connections' = connections
         /\ \A e \in connections : conns'[e.conn].st = conns[e.conn].st
         /\ networkStats' = networkStats
         /\ NotesOf(notes', "disconnect", conns[c].peer) = {}]_vars

\* the connect and disconnect notifications about peer p among the notes ns
Told(ns, p) ==
  {i \in DOMAIN ns : ns[i].peerId = p /\ ns[i].kind \in {"connect", "disconnect"}}

\* C28: the connect and disconnect notifications about one peer alternate,
\* starting with a connect: a connect comes only when the last notification
\* about the peer was not a connect, a disconnect only when it was.
C28_NotificationsAlternate ==
  [][\A p \in Peers :
       \A i \in Told(notes', p) :
         LET before == {j \in Told(notes', p) : j < i}
         IN  IF before = {}
             THEN (notes'[i].kind = "connect") # hist.told[p]
             ELSE notes'[i].kind #
                    notes'[CHOOSE j \in before : \A k \in before : k <= j].kind]_vars

\* the timer whose callback a step has run
Fired(t) == last'.op = "timer" /\ CopiesIn(t, timers') < CopiesIn(t, timers)

\* C29: the callback of a timer set before a cleanup() that runs after it
\* opens no transport and puts no record in the registry, also when init()
\* has been called again in between.
C29_NoStaleCallbacks ==
  [][\A t \in BagToSet(timers) :
       (Fired(t) /\ t.epoch < hist.cleanups) =>
         /\ \A c \in DOMAIN conns :
              ~(conns[c].st = "free" /\ conns'[c].st = "connecting")
         /\ connections' = connections]_vars

\* C30: every init() settles: while its peer exists, a pending Promise is
\* eventually resolved (the peer's 'open') or rejected (an 'error' of the peer
\* before it opened), also for an init() that follows a cleanup().
C30_InitSettles ==
  (promise = "pending" /\ peer # "null") ~> (promise # "pending" \/ peer = "null")

\* the chat MESSAGE frames among the notes ns
Pushed(ns) == {i \in KindOf(ns, "send") : ns[i].payload = "MESSAGE"}

\* C21: a MESSAGE frame is pushed only for a message the server has already
\* stored, and its messageId is the id the server stored that message under,
\* the only id the message has; a refused write pushes nothing.
C21_ServerFirst ==
  [][\A i \in Pushed(notes') :
       LET f == notes'[i].data
       IN  /\ f.messageId \in DOMAIN chat.messages
           /\ chat.messages[f.messageId] = f.content
           /\ \A j \in DOMAIN chat.messages :
                chat.messages[j] = f.content => j = f.messageId
           /\ last'.op = "resume"
           /\ chat.sends[f.content].st = "stored"]_vars

\* a message stored by the server has been pushed to the recipient's peer
C21_Witness ==
  /\ last.op = "resume"
  /\ \E i \in Pushed(notes) : notes[i].data.messageId \in DOMAIN chat.messages

\* the peers of user u that the registry holds a record for
RecordsOf(u) == {e \in connections : RemoteUser(e.peerId) = u}

\* C26: the chat input finds a recipientConnection ("P2P Connected") exactly
\* when the registry holds a record for a peer of the recipient, whichever
\* side dialed, and a submitted message that the server has stored is pushed
\* over the data channel exactly when the registry holds such a record.
C26_P2PWheneverRecord ==
  [][/\ (recipientConnection(Cur, Recipient) # NoId) <=> (RecordsOf(Recipient) # {})
     /\ (last'.op = "resume" /\ chat.sends[last'.arg.content].st = "stored") =>
          ((Pushed(notes') # {}) <=> (RecordsOf(Recipient) # {}))]_vars

====
